---------------------------- MODULE Spec2Model ----------------------------
(***************************************************************************)
(* Model of the Cloudflare IP checker (src/index.ts).                      *)
(*                                                                         *)
(* The program is one async loop.  Every `await` of a network call is a    *)
(* point where the environment (the DNS provider's other clients, the      *)
(* host's ISP) can act, so each action below is one continuation of the    *)
(* program: it consumes the response of the request in flight, runs the    *)
(* code up to the next `await`, and leaves the next request in flight.     *)
(* The provider handles a request at the moment its response is consumed.  *)
(*                                                                         *)
(* `calls`, `prev`, `dirty` and `zoneAtStart` are history variables: they  *)
(* record what the program did and are never read by it.                   *)
(***************************************************************************)
EXTENDS Integers, Sequences, FiniteSets, TLC

VARIABLES
    config,          \* config.allowedRecords: the configured allow-list
    zone,            \* the provider's records, zone[id]
    hostIP,          \* the host's public IP, as the echo service sees it
    pc,              \* the await the program is suspended at
    currentIP,       \* checkAndUpdateIP: const currentIP
    allRecords,      \* checkAndUpdateIP: const allRecords
    allowedRecords,  \* checkAndUpdateIP: const allowedRecords
    idx,             \* position of the for..of loop in allowedRecords
    currentRecord,   \* updateDNSRecord: const currentRecord
    inflight,        \* the network request the program is suspended on
    outstanding,     \* the number of requests sent and not yet answered
    exitCode,        \* process.exit code, NoExit while running
    calls,           \* history: the calls completed in the current tick
    prev,            \* history: the previous tick's discovered IP, and
                     \*   whether it ran undisturbed
    dirty,           \* history: a call failed or the zone was changed
                     \*   out-of-band since the current tick started
    zoneAtStart,     \* history: zone when the current tick started
    envLeft          \* events the environment may still produce: failing
                     \*   responses, out-of-band edits, public-IP changes

vars == <<config, zone, hostIP, pc, currentIP, allRecords, allowedRecords,
          idx, currentRecord, inflight, outstanding, exitCode, calls,
          prev, dirty, zoneAtStart, envLeft>>

---------------------------------------------------------------------------
(* Bounds of the environment *)

MaxEnv == 1

(* Program constants *)

PerPage == 100
ExitFatal == 1

\* exitCode while the process runs (no exit code yet)
NoExit == 0 - 1

---------------------------------------------------------------------------
(* Values *)

IPs == {"1.1.1.1", "2.2.2.2"}
Names == {"a.example.com", "*.example.com"}
Types == {"A", "AAAA"}
TTLs == {1, 300}

\* data.ip of an echo response that is JSON without an ip field
Undefined == "undefined"
\* a key JSON.stringify leaves out of the body
Absent == "<absent>"
\* currentIP before its assignment
NoIP == "<unset>"

\* interface DNSRecord, without the id (the id is the index in zone)
Record(name, type, content, proxied, ttl) ==
    [name |-> name, type |-> type, content |-> content,
     proxied |-> proxied, ttl |-> ttl]

NoRecord == Record("", "", "", FALSE, 0)

\* interface DNSRecord: an entry of a listing
DNSRecord(id, r) ==
    [id |-> id, name |-> r.name, type |-> r.type, content |-> r.content,
     proxied |-> r.proxied, ttl |-> r.ttl]

NoRequest == [op |-> "none", id |-> 0, body |-> NoRecord]
Request(op, id, body) == [op |-> op, id |-> id, body |-> body]

\* one completed call of the tick: what was asked (op, purpose, the loop
\* position, the record id, the PUT body), whether it succeeded, and the
\* record as the provider held it when it handled the call
Call(op, purpose, i, id, ok, body, held) ==
    [op |-> op, purpose |-> purpose, idx |-> i, id |-> id, ok |-> ok,
     body |-> body, held |-> held]

\* the body of an echo response, { ip }, in the shape of a held record
EchoResponse(ip) == [NoRecord EXCEPT !.content = ip]

Min(a, b) == IF a < b THEN a ELSE b

---------------------------------------------------------------------------
(* Pure parts of the program *)

\* (mutant) allow-list entries of the form *.domain cover the names under
\* the domain
IncludesWildcard(list, name) ==
    \E i \in 1..Len(list) :
        \/ list[i] = name
        \/ list[i] = "*.example.com" /\ name = "a.example.com"

\* config.allowedRecords.includes(record.name): strict string equality
Includes(list, name) == \E i \in 1..Len(list) : list[i] = name

\* (mutant) the allow-list is walked and the records of each entry are
\* collected, so the result is in the allow-list's order
RECURSIVE FilterInAllowListOrder(_, _)
FilterInAllowListOrder(records, allow) ==
    IF allow = <<>>
    THEN <<>>
    ELSE SelectSeq(records, LAMBDA record : record.name = Head(allow))
            \o FilterInAllowListOrder(records, Tail(allow))

\* (mutant) only address records of type A are matched
FilterTypeA(records, allow) ==
    SelectSeq(records,
              LAMBDA record : Includes(allow, record.name) /\ record.type = "A")

\* allRecords.filter((record) => config.allowedRecords.includes(record.name))
Filter(records, allow) ==
    SelectSeq(records, LAMBDA record : Includes(allow, record.name))

\* JSON.stringify of one body field: a key whose value is undefined is
\* left out, any string is sent as it is
JsonField(v) == IF v = Undefined THEN Absent ELSE v

\* (mutant) the whole fetched record is written back, content included
PutBodyKeepsContent(name, type, ip, current) ==
    Record(name, type, current.content, current.proxied, current.ttl)

\* (mutant) name and type are taken from the fetched record as well
PutBodyOfCurrent(name, type, ip, current) ==
    Record(current.name, current.type, JsonField(ip), current.proxied,
           current.ttl)

\* the body of the PUT of updateDNSRecord(recordId, name, type, ip), built
\* from the arguments and the record fetched just before
PutBody(name, type, ip, current) ==
    Record(name, type, JsonField(ip), current.proxied, current.ttl)

\* (mutant) the comparison is skipped and every record is updated
MismatchAlways(recordIP, ip) == TRUE

\* (mutant) the comparison is inverted
MismatchInverted(recordIP, ip) == recordIP = ip

\* recordIP !== currentIP
Mismatch(recordIP, ip) == recordIP # ip

---------------------------------------------------------------------------
(* The provider *)

\* GET .../dns_records?per_page=100: the first page of the zone, in the
\* provider's order; the program never asks for a second page
Listing(z) == [i \in 1..Min(Len(z), PerPage) |-> DNSRecord(i, z[i])]

\* a PUT replaces the whole record; the provider refuses a body without
\* content
ProviderAccepts(body) == body.content # Absent

ApplyPut(z, id, body) == [z EXCEPT ![id] = body]

---------------------------------------------------------------------------
(* Control flow shared by the handlers *)

\* whether a request is one (NoRequest stands for no request)
Pending(req) == IF req = NoRequest THEN 0 ELSE 1

\* await fetch(...): the response awaited so far, if any, has been
\* consumed; req is sent and the program is suspended until its response
\* arrives (with NoRequest nothing is sent)
Await(req) ==
    /\ inflight' = req
    /\ outstanding' = outstanding - Pending(inflight) + Pending(req)

\* (mutant) updateDNSRecord is called without await: its getDNSRecord is
\* sent, and the loop goes on at once while that request is outstanding
CallUpdateNoAwait(id) ==
    /\ exitCode' = exitCode
    /\ IF idx < Len(allowedRecords)
       THEN /\ idx' = idx + 1
            /\ inflight' = Request("GET", allowedRecords[idx + 1].id, NoRecord)
            /\ outstanding' = outstanding - Pending(inflight) + 2
            /\ pc' = "compare"
       ELSE /\ idx' = idx
            /\ inflight' = NoRequest
            /\ outstanding' = outstanding - Pending(inflight) + 1
            /\ pc' = "sleep"

\* (mutant) updateDNSRecord does not fetch the record again: the PUT is
\* sent at once with the ttl and proxied of the listing
CallUpdateNoRefetch(id) ==
    /\ Await(Request("PUT", id,
            [name |-> allowedRecords[idx].name,
             type |-> allowedRecords[idx].type,
             content |-> currentIP,
             proxied |-> allowedRecords[idx].proxied,
             ttl |-> allowedRecords[idx].ttl]))
    /\ pc' = "put"
    /\ idx' = idx
    /\ exitCode' = exitCode

\* await updateDNSRecord(record.id, ...): the call runs up to the
\* getDNSRecord at its start, and the loop waits for it
CallUpdate(id) ==
    /\ Await(Request("GET", id, NoRecord))
    /\ pc' = "refetch"
    /\ idx' = idx
    /\ exitCode' = exitCode

\* the end of one iteration of the for..of loop: the next record's
\* comparison read, or the end of checkAndUpdateIP and the sleep
Advance ==
    /\ exitCode' = exitCode
    /\ IF idx < Len(allowedRecords)
       THEN /\ idx' = idx + 1
            /\ Await(Request("GET", allowedRecords[idx + 1].id, NoRecord))
            /\ pc' = "compare"
       ELSE /\ idx' = idx
            /\ Await(NoRequest)
            /\ pc' = "sleep"

\* (mutant) the outer catch logs the error and returns, so the loop sleeps
\* and goes on
FatalSwallowed ==
    /\ pc' = "sleep"
    /\ exitCode' = exitCode
    /\ Await(NoRequest)

\* catch (error) { console.error("Fatal error"); process.exit(1) }
Fatal ==
    /\ pc' = "exited"
    /\ exitCode' = ExitFatal
    /\ Await(NoRequest)

\* (mutant) no catch inside the loop: the error reaches the outer catch
CatchRethrows == Fatal /\ idx' = idx

\* the catch inside the loop: the error is logged and the loop goes on
CatchInLoop == Advance

\* (mutant) an empty match is raised as an error
NoMatchThrows == Fatal /\ idx' = 0

\* if (allowedRecords.length === 0) { ...; return }: the tick ends early
NoMatchReturn ==
    /\ exitCode' = exitCode
    /\ idx' = 0
    /\ Await(NoRequest)
    /\ pc' = "sleep"

Log(c) == calls' = Append(calls, c)

---------------------------------------------------------------------------
(* Initial states *)

\* the configured allow-lists: non-empty (an empty list is refused at
\* startup), entries in any order
AllowLists ==
    {<<n>> : n \in Names} \cup
    {<<n, m>> : <<n, m>> \in {<<a, b>> \in Names \X Names : a # b}}

\* zones of two records, which hold the same address at first
SmallZones ==
    {<<Record(n1, "A", c, FALSE, 300), Record(n2, "A", c, FALSE, 300)>> :
        <<n1, n2, c>> \in Names \X Names \X {"1.1.1.1"}}

InitProgram ==
    /\ pc = "start"
    /\ currentIP = NoIP
    /\ allRecords = <<>>
    /\ allowedRecords = <<>>
    /\ idx = 0
    /\ currentRecord = NoRecord
    /\ inflight = NoRequest
    /\ outstanding = 0
    /\ exitCode = NoExit
    /\ calls = <<>>
    /\ prev = [ip |-> NoIP, clean |-> FALSE]
    /\ dirty = FALSE
    /\ zoneAtStart = zone

\* at first the records hold one address and the host has got another
Init ==
    /\ config \in {[allowedRecords |-> l] : l \in AllowLists}
    /\ zone \in SmallZones
    /\ hostIP \in IPs \ {zone[1].content}
    /\ envLeft = MaxEnv
    /\ InitProgram

---------------------------------------------------------------------------
(* The program: one action per continuation *)

progVars == <<pc, currentIP, allRecords, allowedRecords, idx, currentRecord,
              inflight, outstanding, exitCode>>
envVars == <<config, zone, hostIP>>

\* while (true) { await checkAndUpdateIP(); ... }: a tick starts, at
\* startup or when the timer of the sleep fires, and runs up to the fetch
\* of getCurrentIP
StartTick ==
    /\ pc \in {"start", "sleep"}
    /\ pc' = "getCurrentIP"
    /\ Await(Request("ECHO", 0, NoRecord))
    /\ currentIP' = NoIP
    /\ allRecords' = <<>>
    /\ allowedRecords' = <<>>
    /\ idx' = 0
    /\ currentRecord' = NoRecord
    /\ calls' = <<>>
    /\ prev' = [ip |-> currentIP, clean |-> (pc = "sleep" /\ ~dirty)]
    /\ dirty' = FALSE
    /\ zoneAtStart' = zone
    /\ UNCHANGED <<exitCode, envLeft>>
    /\ UNCHANGED envVars

\* getCurrentIP returns data.ip; checkAndUpdateIP goes on to the fetch of
\* getAllDNSRecords
GetCurrentIPReturns ==
    /\ pc = "getCurrentIP"
    /\ currentIP' = hostIP
    /\ Log(Call("ECHO", "discover", 0, 0, TRUE, NoRecord,
                EchoResponse(hostIP)))
    /\ Await(Request("LIST", 0, NoRecord))
    /\ pc' = "getAllDNSRecords"
    /\ UNCHANGED <<allRecords, allowedRecords, idx, currentRecord, exitCode>>
    /\ UNCHANGED <<prev, dirty, zoneAtStart, envLeft>>
    /\ UNCHANGED envVars

\* the echo service answers JSON that has no ip field: response.json()
\* succeeds, the cast checks nothing, and data.ip is undefined
GetCurrentIPNoField ==
    /\ pc = "getCurrentIP"
    /\ envLeft > 0
    /\ envLeft' = envLeft - 1
    /\ dirty' = TRUE
    /\ currentIP' = Undefined
    /\ Log(Call("ECHO", "discover", 0, 0, TRUE, NoRecord,
                EchoResponse(Undefined)))
    /\ Await(Request("LIST", 0, NoRecord))
    /\ pc' = "getAllDNSRecords"
    /\ UNCHANGED <<allRecords, allowedRecords, idx, currentRecord, exitCode>>
    /\ UNCHANGED <<prev, zoneAtStart>>
    /\ UNCHANGED envVars

\* fetch rejects or the body is not JSON: getCurrentIP throws, the outer
\* catch of checkAndUpdateIP exits the process
GetCurrentIPFails ==
    /\ pc = "getCurrentIP"
    /\ envLeft > 0
    /\ envLeft' = envLeft - 1
    /\ dirty' = TRUE
    /\ Log(Call("ECHO", "discover", 0, 0, FALSE, NoRecord, NoRecord))
    /\ Fatal
    /\ UNCHANGED <<currentIP, allRecords, allowedRecords, idx, currentRecord>>
    /\ UNCHANGED <<prev, zoneAtStart>>
    /\ UNCHANGED envVars

\* getAllDNSRecords returns data.result; the records are filtered; with no
\* match checkAndUpdateIP returns, otherwise the loop starts with the
\* comparison read of the first matched record
GetAllDNSRecordsReturns ==
    /\ pc = "getAllDNSRecords"
    /\ allRecords' = Listing(zone)
    /\ allowedRecords' = Filter(allRecords', config.allowedRecords)
    /\ Log(Call("LIST", "list", 0, 0, TRUE, NoRecord, NoRecord))
    /\ IF Len(allowedRecords') = 0
       THEN NoMatchReturn
       ELSE /\ idx' = 1
            /\ Await(Request("GET", allowedRecords'[1].id, NoRecord))
            /\ pc' = "compare"
            /\ exitCode' = exitCode
    /\ UNCHANGED <<currentIP, currentRecord>>
    /\ UNCHANGED <<prev, dirty, zoneAtStart, envLeft>>
    /\ UNCHANGED envVars

\* the listing fails (fetch rejects, or success is false and the function
\* throws): the outer catch exits the process
GetAllDNSRecordsFails ==
    /\ pc = "getAllDNSRecords"
    /\ envLeft > 0
    /\ envLeft' = envLeft - 1
    /\ dirty' = TRUE
    /\ Log(Call("LIST", "list", 0, 0, FALSE, NoRecord, NoRecord))
    /\ Fatal
    /\ UNCHANGED <<currentIP, allRecords, allowedRecords, idx, currentRecord>>
    /\ UNCHANGED <<prev, zoneAtStart>>
    /\ UNCHANGED envVars

\* the comparison read of the loop returns: on a mismatch updateDNSRecord
\* is called and runs up to its own getDNSRecord; otherwise the record is
\* up to date and the loop moves on
CompareReturns ==
    /\ pc = "compare"
    /\ LET id == inflight.id
           dnsRecord == zone[id]
           recordIP == dnsRecord.content
       IN /\ Log(Call("GET", "compare", idx, id, TRUE, NoRecord, dnsRecord))
          /\ IF Mismatch(recordIP, currentIP)
             THEN CallUpdate(id)
             ELSE Advance
    /\ UNCHANGED <<currentIP, allRecords, allowedRecords, currentRecord>>
    /\ UNCHANGED <<prev, dirty, zoneAtStart, envLeft>>
    /\ UNCHANGED envVars

\* the comparison read fails: getDNSRecord throws, the catch inside the
\* loop logs it and the loop moves on
CompareFails ==
    /\ pc = "compare"
    /\ envLeft > 0
    /\ envLeft' = envLeft - 1
    /\ dirty' = TRUE
    /\ Log(Call("GET", "compare", idx, inflight.id, FALSE, NoRecord,
                zone[inflight.id]))
    /\ CatchInLoop
    /\ UNCHANGED <<currentIP, allRecords, allowedRecords, currentRecord>>
    /\ UNCHANGED <<prev, zoneAtStart>>
    /\ UNCHANGED envVars

\* (mutant) updateDNSRecord looks the public IP up again and writes what
\* the host has got by then
RefetchReturnsFreshIP ==
    /\ pc = "refetch"
    /\ LET id == inflight.id
           record == allowedRecords[idx]
       IN /\ currentRecord' = zone[id]
          /\ Log(Call("GET", "refetch", idx, id, TRUE, NoRecord, zone[id]))
          /\ Await(Request("PUT", id,
                 PutBody(record.name, record.type, hostIP, currentRecord')))
    /\ pc' = "put"
    /\ UNCHANGED <<currentIP, allRecords, allowedRecords, idx, exitCode>>
    /\ UNCHANGED <<prev, dirty, zoneAtStart, envLeft>>
    /\ UNCHANGED envVars

\* updateDNSRecord: getDNSRecord returns currentRecord and the PUT is sent,
\* with the listed name and type, the discovered IP, and the ttl and
\* proxied just fetched
RefetchReturns ==
    /\ pc = "refetch"
    /\ LET id == inflight.id
           record == allowedRecords[idx]
       IN /\ currentRecord' = zone[id]
          /\ Log(Call("GET", "refetch", idx, id, TRUE, NoRecord, zone[id]))
          /\ Await(Request("PUT", id,
                 PutBody(record.name, record.type, currentIP, currentRecord')))
    /\ pc' = "put"
    /\ UNCHANGED <<currentIP, allRecords, allowedRecords, idx, exitCode>>
    /\ UNCHANGED <<prev, dirty, zoneAtStart, envLeft>>
    /\ UNCHANGED envVars

\* the re-fetch fails: updateDNSRecord throws before any PUT
RefetchFails ==
    /\ pc = "refetch"
    /\ envLeft > 0
    /\ envLeft' = envLeft - 1
    /\ dirty' = TRUE
    /\ Log(Call("GET", "refetch", idx, inflight.id, FALSE, NoRecord,
                zone[inflight.id]))
    /\ CatchInLoop
    /\ UNCHANGED <<currentIP, allRecords, allowedRecords, currentRecord>>
    /\ UNCHANGED <<prev, zoneAtStart>>
    /\ UNCHANGED envVars

\* the provider applies the PUT and answers success: updateDNSRecord
\* returns (its currentRecord is gone) and the loop moves on
PutReturns ==
    /\ pc = "put"
    /\ ProviderAccepts(inflight.body)
    /\ zone' = ApplyPut(zone, inflight.id, inflight.body)
    /\ Log(Call("PUT", "update", idx, inflight.id, TRUE, inflight.body,
                zone[inflight.id]))
    /\ Advance
    /\ currentRecord' = NoRecord
    /\ UNCHANGED <<currentIP, allRecords, allowedRecords>>
    /\ UNCHANGED <<prev, dirty, zoneAtStart, envLeft>>
    /\ UNCHANGED <<config, hostIP>>

\* the provider refuses the PUT (always, when the body has no content) or
\* the request fails: nothing is written, updateDNSRecord throws, the
\* catch inside the loop logs it and the loop moves on
PutFails ==
    /\ pc = "put"
    /\ IF ProviderAccepts(inflight.body)
       THEN /\ envLeft > 0
            /\ envLeft' = envLeft - 1
       ELSE envLeft' = envLeft
    /\ dirty' = TRUE
    /\ Log(Call("PUT", "update", idx, inflight.id, FALSE, inflight.body,
                zone[inflight.id]))
    /\ CatchInLoop
    /\ currentRecord' = NoRecord
    /\ UNCHANGED <<currentIP, allRecords, allowedRecords>>
    /\ UNCHANGED <<prev, zoneAtStart>>
    /\ UNCHANGED envVars

---------------------------------------------------------------------------
(* The environment *)

histVars == <<calls, prev, zoneAtStart>>

\* the host gets another public IP
HostIPChanges ==
    /\ pc # "exited"
    /\ envLeft > 0
    /\ envLeft' = envLeft - 1
    /\ \E ip \in IPs \ {hostIP} : hostIP' = ip
    /\ UNCHANGED <<config, zone, dirty>>
    /\ UNCHANGED progVars
    /\ UNCHANGED histVars

\* another client of the provider edits one field of one record
Edits(r) ==
    {[r EXCEPT !.content = c] : c \in IPs} \cup
    {[r EXCEPT !.ttl = t] : t \in TTLs} \cup
    {[r EXCEPT !.proxied = b] : b \in BOOLEAN} \cup
    {[r EXCEPT !.name = n] : n \in Names} \cup
    {[r EXCEPT !.type = t] : t \in Types}

OutOfBand ==
    /\ pc # "exited"
    /\ envLeft > 0
    /\ envLeft' = envLeft - 1
    /\ dirty' = TRUE
    /\ \E id \in 1..Len(zone) :
         \E r \in Edits(zone[id]) \ {zone[id]} :
            zone' = [zone EXCEPT ![id] = r]
    /\ UNCHANGED <<config, hostIP>>
    /\ UNCHANGED progVars
    /\ UNCHANGED histVars

---------------------------------------------------------------------------
(* Specifications *)

Program ==
    \/ StartTick
    \/ GetCurrentIPReturns
    \/ GetCurrentIPNoField
    \/ GetCurrentIPFails
    \/ GetAllDNSRecordsReturns
    \/ GetAllDNSRecordsFails
    \/ CompareReturns
    \/ CompareFails
    \/ RefetchReturns
    \/ RefetchFails
    \/ PutReturns
    \/ PutFails

Next == Program \/ HostIPChanges \/ OutOfBand

Spec == Init /\ [][Next]_vars

---------------------------------------------------------------------------
(* Reading the history of the current tick *)

CallIds == 1..Len(calls)

\* the calls made for loop position i with the given purpose
CallsOf(i, purpose) ==
    {k \in CallIds : calls[k].idx = i /\ calls[k].purpose = purpose}

\* the loop is done with position i
Finished(i) == i < idx \/ (i = idx /\ pc = "sleep")

\* name is an entry of the configured allow-list, by string equality
ExactlyListed(name) ==
    name \in {config.allowedRecords[j] : j \in 1..Len(config.allowedRecords)}

RecordCalls == {k \in CallIds : calls[k].op \in {"GET", "PUT"}}

---------------------------------------------------------------------------
(* C1: every update write that the provider applies carries the ttl and *)
(* proxied that the record holds at the provider when the write is      *)
(* applied, so an update of content never changes them, whenever they   *)
(* were last changed out-of-band.                                       *)
C1_PutPreservesSettings ==
    \A k \in CallIds :
        (calls[k].op = "PUT" /\ calls[k].ok) =>
            /\ calls[k].body.ttl = calls[k].held.ttl
            /\ calls[k].body.proxied = calls[k].held.proxied

---------------------------------------------------------------------------
(* C2, as claimed: every matched record whose stored content differs    *)
(* from the discovered IP gets exactly one PUT in the tick, with        *)
(* content set to the discovered IP.                                    *)
C2_ExactlyOnePutOnMismatch ==
    \A i \in 1..Len(allowedRecords) :
        \A k \in CallsOf(i, "compare") :
            (Finished(i) /\ calls[k].held.content # currentIP) =>
                /\ Cardinality(CallsOf(i, "update")) = 1
                /\ \A u \in CallsOf(i, "update") :
                      calls[u].body.content = currentIP

(* C2, amended: a matched record whose comparison read succeeds with    *)
(* content different from the discovered value gets exactly one         *)
(* re-fetch and at most one PUT in the tick: exactly one PUT when the   *)
(* re-fetch succeeds, none when it fails.  The PUT's content is the     *)
(* discovered IP when the echo response carried an ip string, and is    *)
(* missing from the body when it carried none.                          *)
C2_OnePutWhenReadsSucceed ==
    \A i \in 1..Len(allowedRecords) :
        \A k \in CallsOf(i, "compare") :
            (Finished(i) /\ calls[k].ok /\ calls[k].held.content # currentIP) =>
                /\ Cardinality(CallsOf(i, "refetch")) = 1
                /\ \A r \in CallsOf(i, "refetch") :
                      Cardinality(CallsOf(i, "update")) =
                          (IF calls[r].ok THEN 1 ELSE 0)
                /\ \A u \in CallsOf(i, "update") :
                      /\ calls[u].id = allowedRecords[i].id
                      /\ calls[u].body.content =
                            (IF currentIP \in IPs THEN currentIP ELSE Absent)

C2_Witness ==
    /\ pc = "sleep"
    /\ currentIP \in IPs
    /\ \E i \in 1..Len(allowedRecords) :
          /\ \E k \in CallsOf(i, "compare") :
                calls[k].ok /\ calls[k].held.content # currentIP
          /\ \E u \in CallsOf(i, "update") :
                calls[u].ok /\ zone[calls[u].id].content = currentIP

---------------------------------------------------------------------------
(* C3: a matched record whose comparison read returns content equal to  *)
(* the discovered IP gets no update in the tick: no re-fetch and no PUT *)
(* is made or in flight for it.                                         *)
C3_NoUpdateWhenEqual ==
    \A k \in CallIds :
        (/\ calls[k].purpose = "compare"
         /\ calls[k].ok
         /\ calls[k].held.content = currentIP) =>
            /\ CallsOf(calls[k].idx, "refetch") = {}
            /\ CallsOf(calls[k].idx, "update") = {}
            /\ ~(idx = calls[k].idx /\ pc \in {"refetch", "put"})

C3_Witness ==
    /\ pc = "sleep"
    /\ \E k \in CallIds :
          /\ calls[k].purpose = "compare"
          /\ calls[k].ok
          /\ calls[k].held.content = currentIP

---------------------------------------------------------------------------
(* C4: every single-record read and every update write of a tick, made  *)
(* or in flight, targets an entry of the tick's listing whose name is   *)
(* equal as a string to an allow-list entry, and a write carries that   *)
(* name; listed records whose name is no allow-list entry are neither   *)
(* read individually nor written.                                       *)
Targets ==
    {calls[k].id : k \in RecordCalls} \cup
    (IF inflight.op \in {"GET", "PUT"} THEN {inflight.id} ELSE {})

C4_OnlyAllowListedTouched ==
    /\ \A id \in Targets :
          \E j \in 1..Len(allRecords) :
              allRecords[j].id = id /\ ExactlyListed(allRecords[j].name)
    /\ \A j \in 1..Len(allRecords) :
          ~ExactlyListed(allRecords[j].name) => allRecords[j].id \notin Targets
    /\ \A k \in CallIds :
          calls[k].op = "PUT" =>
              /\ ExactlyListed(calls[k].body.name)
              /\ \E j \in 1..Len(allRecords) :
                    /\ allRecords[j].id = calls[k].id
                    /\ allRecords[j].name = calls[k].body.name

\* a wildcard entry is configured, a record with a name under it is
\* listed, and only the record literally named like the entry is written
C4_Witness ==
    /\ pc = "sleep"
    /\ ExactlyListed("*.example.com")
    /\ ~ExactlyListed("a.example.com")
    /\ \E j \in 1..Len(allRecords) : allRecords[j].name = "a.example.com"
    /\ \E k \in CallIds : calls[k].op = "PUT" /\ calls[k].ok

---------------------------------------------------------------------------
(* C5: a failure while processing matched record A (its comparison      *)
(* read, the re-fetch inside update or the update write) does not abort *)
(* the tick: the process keeps running, the loop moves on, and every    *)
(* record B after A that the loop is done with was read for comparison  *)
(* exactly once and got the outcome its own responses call for: no      *)
(* further call when its content equals the discovered IP, one re-fetch *)
(* and, when that succeeds, one PUT when it differs.                    *)
CorrectOutcome(b) ==
    /\ Cardinality(CallsOf(b, "compare")) = 1
    /\ \A c \in CallsOf(b, "compare") :
          IF calls[c].ok /\ calls[c].held.content # currentIP
          THEN /\ Cardinality(CallsOf(b, "refetch")) = 1
               /\ \A r \in CallsOf(b, "refetch") :
                     Cardinality(CallsOf(b, "update")) =
                         (IF calls[r].ok THEN 1 ELSE 0)
          ELSE /\ CallsOf(b, "refetch") = {}
               /\ CallsOf(b, "update") = {}

C5_FailureDoesNotAbortTick ==
    \A k \in RecordCalls :
        ~calls[k].ok =>
            LET a == calls[k].idx
            IN /\ pc # "exited"
               /\ exitCode = NoExit
               /\ a < Len(allowedRecords) => idx > a
               /\ pc = "sleep" => idx = Len(allowedRecords)
               /\ \A b \in (a + 1)..Len(allowedRecords) :
                     Finished(b) => CorrectOutcome(b)

\* the first record failed, the second one was updated all the same
C5_Witness ==
    /\ pc = "sleep"
    /\ \E k \in RecordCalls : calls[k].idx = 1 /\ ~calls[k].ok
    /\ \E u \in CallsOf(2, "update") :
          calls[u].ok /\ zone[calls[u].id].content = currentIP

---------------------------------------------------------------------------
(* C6: when the IP-discovery call of a tick fails, the tick makes no    *)
(* provider call (no listing, no single-record read, no write) and the  *)
(* process has terminated with exit code 1.                             *)
C6_DiscoveryFailureIsFatal ==
    (\E k \in CallIds : calls[k].op = "ECHO" /\ ~calls[k].ok) =>
        /\ pc = "exited"
        /\ exitCode = ExitFatal
        /\ inflight = NoRequest
        /\ \A k \in CallIds : calls[k].op = "ECHO"

C6_Witness ==
    /\ pc = "exited"
    /\ \E k \in CallIds : calls[k].op = "ECHO" /\ ~calls[k].ok

---------------------------------------------------------------------------
(* C7: when the zone listing of a tick fails, no single-record read and *)
(* no write is made in the tick, the process has terminated with exit   *)
(* code 1, and the program takes no further step (no later tick).       *)
C7_ListingFailureIsFatal ==
    (\E k \in CallIds : calls[k].op = "LIST" /\ ~calls[k].ok) =>
        /\ pc = "exited"
        /\ exitCode = ExitFatal
        /\ inflight = NoRequest
        /\ RecordCalls = {}
        /\ ~ENABLED Program

C7_Witness ==
    /\ pc = "exited"
    /\ currentIP \in IPs
    /\ \E k \in CallIds : calls[k].op = "LIST" /\ ~calls[k].ok

---------------------------------------------------------------------------
(* C8: when the listing succeeds and none of its records has a name in  *)
(* the allow-list, the tick has ended with no single-record read and no *)
(* write, made or in flight, the process has not terminated, and the    *)
(* loop is in its sleep, from where the next tick can start.            *)
C8_NoMatchEndsTickQuietly ==
    (/\ \E k \in CallIds : calls[k].op = "LIST" /\ calls[k].ok
     /\ \A j \in 1..Len(allRecords) : ~ExactlyListed(allRecords[j].name)) =>
        /\ pc = "sleep"
        /\ exitCode = NoExit
        /\ inflight = NoRequest
        /\ RecordCalls = {}
        /\ ENABLED StartTick

C8_Witness ==
    /\ \E k \in CallIds : calls[k].op = "LIST" /\ calls[k].ok
    /\ Len(allRecords) > 0
    /\ \A j \in 1..Len(allRecords) : ~ExactlyListed(allRecords[j].name)
    /\ pc = "sleep"

---------------------------------------------------------------------------
---------------------------------------------------------------------------
(* Runs in which every call succeeds and nobody else edits the zone     *)

\* a zone one record longer than a page of the listing; its first and
\* its last record carry the allow-listed name
BigZone ==
    [i \in 1..(PerPage + 1) |->
        Record(IF i \in {1, PerPage + 1} THEN "a.example.com"
                                         ELSE "*.example.com",
               "A", "1.1.1.1", FALSE, 300)]

InitQuiet ==
    /\ \/ /\ config \in {[allowedRecords |-> l] : l \in AllowLists}
          /\ zone \in SmallZones
       \/ /\ config = [allowedRecords |-> <<"a.example.com">>]
          /\ zone = BigZone
    /\ hostIP \in IPs
    /\ envLeft = MaxEnv
    /\ InitProgram

Quiet ==
    \/ StartTick
    \/ GetCurrentIPReturns
    \/ GetAllDNSRecordsReturns
    \/ CompareReturns
    \/ RefetchReturns
    \/ PutReturns

NextQuiet == Quiet \/ HostIPChanges

\* the event loop runs every continuation whose response has arrived, and
\* the timer of the sleep fires
QuietSpec == InitQuiet /\ [][NextQuiet]_vars /\ WF_vars(Quiet)

Converged(ids) ==
    \A id \in ids :
        ExactlyListed(zone[id].name) => zone[id].content = hostIP

(* C10: once the public IP stays stable, with every call succeeding and *)
(* no out-of-band change, eventually every zone record whose name is in *)
(* the allow-list has the public IP as content, and keeps it.           *)
C10_Converges == <>[]Converged(1..Len(zone))

\* the same for the records on the first page of the listing
C10_FirstPageConverges == <>[]Converged(1..Min(Len(zone), PerPage))

---------------------------------------------------------------------------
---------------------------------------------------------------------------
(* C12: work never overlaps.  At most one network request is            *)
(* outstanding, and it is the one the program is suspended on; the      *)
(* calls of a tick are made record by record, in the order of the       *)
(* matched records, every call for one record having completed before   *)
(* the first call for the next is sent; and no request is outstanding   *)
(* while the loop sleeps, before the first tick or after the exit, so   *)
(* a tick starts only when every call of the one before has completed.  *)
C12_NoOverlap ==
    /\ outstanding <= 1
    /\ outstanding = Pending(inflight)
    /\ pc \in {"start", "sleep", "exited"} => outstanding = 0
    /\ \A j, k \in RecordCalls : j < k => calls[j].idx <= calls[k].idx
    /\ \A k \in RecordCalls : calls[k].idx <= idx
    /\ pc \in {"compare", "refetch", "put"} =>
          /\ idx \in 1..Len(allowedRecords)
          /\ inflight.id = allowedRecords[idx].id
    /\ pc = "compare" => \A k \in RecordCalls : calls[k].idx < idx

\* a tick that updated two records one after the other has ended
C12_Witness ==
    /\ pc = "sleep"
    /\ outstanding = 0
    /\ \E j, k \in CallIds :
          /\ j < k
          /\ calls[j].op = "PUT" /\ calls[j].idx = 1
          /\ calls[k].purpose = "compare" /\ calls[k].idx = 2

---------------------------------------------------------------------------
(* C13, as claimed: every matched record is read individually twice in  *)
(* a tick, once for the comparison and once inside update (stated here  *)
(* for the ticks in which no call fails and nobody else edits the zone).*)
GetsOf(i) == {k \in CallIds : calls[k].op = "GET" /\ calls[k].idx = i}

C13_TwoReadsPerRecord ==
    \A i \in 1..Len(allowedRecords) :
        (Finished(i) /\ ~dirty) => Cardinality(GetsOf(i)) = 2

(* C13, amended: every matched record is read individually once per     *)
(* tick for the comparison; it is read a second time, inside update,    *)
(* only when that first read succeeded and returned content different   *)
(* from the discovered value.  The second read directly follows the     *)
(* first, and a write is always directly preceded by a successful       *)
(* second read of the same record.                                      *)
C13_SecondReadOnlyOnUpdate ==
    /\ \A i \in 1..Len(allowedRecords) :
          Finished(i) =>
              /\ Cardinality(CallsOf(i, "compare")) = 1
              /\ \A c \in CallsOf(i, "compare") :
                    Cardinality(CallsOf(i, "refetch")) =
                        (IF calls[c].ok /\ calls[c].held.content # currentIP
                         THEN 1 ELSE 0)
              /\ GetsOf(i) = CallsOf(i, "compare") \cup CallsOf(i, "refetch")
    /\ \A r \in CallIds :
          calls[r].purpose = "refetch" =>
              /\ r > 1
              /\ calls[r - 1].purpose = "compare"
              /\ calls[r - 1].idx = calls[r].idx
              /\ calls[r - 1].id = calls[r].id
    /\ \A u \in CallIds :
          calls[u].op = "PUT" =>
              /\ u > 1
              /\ calls[u - 1].purpose = "refetch"
              /\ calls[u - 1].ok
              /\ calls[u - 1].id = calls[u].id
    /\ pc = "put" =>
          /\ Len(calls) > 0
          /\ calls[Len(calls)].purpose = "refetch"
          /\ calls[Len(calls)].id = inflight.id

\* one tick read the first record twice and wrote it, and read the second
\* record once
C13_Witness ==
    /\ pc = "sleep"
    /\ Len(allowedRecords) = 2
    /\ Cardinality(GetsOf(1)) = 2
    /\ CallsOf(1, "update") # {}
    /\ Cardinality(GetsOf(2)) = 1

---------------------------------------------------------------------------
(* C14: the decision to update is not checked again.  Once a record's   *)
(* comparison read has returned content different from the discovered   *)
(* IP and the re-fetch has succeeded, a PUT for that record is sent     *)
(* whatever content the record holds by then, also when it already      *)
(* holds the discovered IP; the PUT's content is the discovered IP, and *)
(* of the re-fetched record only ttl and proxied reach the body.        *)
C14_WriteNotRevalidated ==
    \A i \in 1..Len(allowedRecords) :
        \A c \in CallsOf(i, "compare") :
            \A r \in CallsOf(i, "refetch") :
                (/\ calls[c].ok
                 /\ calls[c].held.content # currentIP
                 /\ calls[r].ok) =>
                    /\ (idx = i /\ CallsOf(i, "update") = {}) =>
                          /\ pc = "put"
                          /\ inflight.op = "PUT"
                          /\ inflight.id = allowedRecords[i].id
                          /\ inflight.body =
                                Record(allowedRecords[i].name,
                                       allowedRecords[i].type,
                                       JsonField(currentIP),
                                       calls[r].held.proxied,
                                       calls[r].held.ttl)
                    /\ Finished(i) => CallsOf(i, "update") # {}
                    /\ \A u \in CallsOf(i, "update") :
                          /\ calls[u].body.content = JsonField(currentIP)
                          /\ calls[u].body.proxied = calls[r].held.proxied
                          /\ calls[u].body.ttl = calls[r].held.ttl
                          /\ calls[u].ok => calls[u].body.content = currentIP

\* a record was changed out-of-band, after its comparison read, to the
\* discovered IP, and the PUT was applied all the same
C14_Witness ==
    \E i \in 1..Len(allowedRecords) :
        \E c \in CallsOf(i, "compare") :
            \E u \in CallsOf(i, "update") :
                /\ calls[c].ok
                /\ calls[c].held.content # currentIP
                /\ calls[u].ok
                /\ calls[u].held.content = currentIP
                /\ calls[u].body.content = currentIP

---------------------------------------------------------------------------
(* C15: discovery fails unless the echo response is JSON with an ip      *)
(* string, so in a tick that has gone past discovery the value compared *)
(* with the records' content and put into the bodies of the updates is  *)
(* an ip string.                                                        *)
C15_PastDiscoveryIPIsString ==
    (Len(calls) > 0 /\ calls[1].op = "ECHO" /\ calls[1].ok) =>
        /\ currentIP \in IPs
        /\ \A u \in CallIds :
              calls[u].op = "PUT" => calls[u].body.content \in IPs

---------------------------------------------------------------------------
(* C16, as claimed: the matched records are checked and updated in the  *)
(* order of the allow-list's entries (stated here for the ticks in      *)
(* which no call fails and nobody else edits the zone).                 *)
AllowListPos(name) ==
    CHOOSE j \in 1..Len(config.allowedRecords) :
        config.allowedRecords[j] = name

C16_OrderFollowsAllowList ==
    \A j, k \in RecordCalls :
        (j < k /\ ~dirty) =>
            AllowListPos(allowedRecords[calls[j].idx].name) <=
                AllowListPos(allowedRecords[calls[k].idx].name)

(* C16, amended: the order of the allow-list's entries changes neither  *)
(* which records are matched nor the order in which they are checked    *)
(* and updated.  The matched records are the entries of the listing     *)
(* whose name is one of the allow-list's entries, each once, and they   *)
(* are checked and updated in the order of the zone listing.            *)
C16_OrderFollowsListing ==
    /\ pc \in {"compare", "refetch", "put", "sleep"} =>
          /\ {allowedRecords[i] : i \in 1..Len(allowedRecords)} =
                {allRecords[n] : n \in
                    {m \in 1..Len(allRecords) :
                        ExactlyListed(allRecords[m].name)}}
          /\ \A i, j \in 1..Len(allowedRecords) :
                i < j => allowedRecords[i].id < allowedRecords[j].id
          /\ \A n \in 1..Len(allRecords) : allRecords[n].id = n
    /\ \A k \in RecordCalls : calls[k].id = allowedRecords[calls[k].idx].id
    /\ \A j, k \in RecordCalls : j < k => calls[j].id <= calls[k].id

\* two records were updated in the listing's order, which is the reverse
\* of the allow-list's
C16_Witness ==
    /\ pc = "sleep"
    /\ Len(allowedRecords) = 2
    /\ config.allowedRecords =
          <<allowedRecords[2].name, allowedRecords[1].name>>
    /\ \E j, k \in CallIds :
          /\ j < k
          /\ calls[j].op = "PUT" /\ calls[j].ok /\ calls[j].id = 1
          /\ calls[k].op = "PUT" /\ calls[k].ok /\ calls[k].id = 2

---------------------------------------------------------------------------
(* C17: the public IP is looked up once per tick, as the tick's first   *)
(* call, and the value of that one response is what every comparison    *)
(* and every update write of the tick uses, whatever the host's public  *)
(* IP has become in the meantime and whatever the tick before had       *)
(* discovered.                                                          *)
Discoveries == {k \in CallIds : calls[k].op = "ECHO"}

C17_OneDiscoveryPerTick ==
    /\ Discoveries \subseteq {1}
    /\ Len(calls) > 0 => Discoveries = {1}
    /\ pc = "getCurrentIP" => (calls = <<>> /\ currentIP = NoIP)
    /\ pc \in {"getAllDNSRecords", "compare", "refetch", "put"} =>
          /\ Discoveries = {1}
          /\ calls[1].ok
    /\ (Len(calls) > 0 /\ calls[1].ok) =>
          LET discovered == calls[1].held.content
          IN /\ currentIP = discovered
             /\ \A c \in CallIds :
                   (calls[c].purpose = "compare" /\ calls[c].ok
                        /\ Finished(calls[c].idx)) =>
                      (CallsOf(calls[c].idx, "refetch") # {}
                          <=> calls[c].held.content # discovered)
             /\ \A u \in CallIds :
                   calls[u].op = "PUT" =>
                      calls[u].body.content = JsonField(discovered)
             /\ inflight.op = "PUT" =>
                   inflight.body.content = JsonField(discovered)

\* the host's public IP has changed after the tick's discovery, and the
\* tick has written the value it had discovered
C17_Witness ==
    /\ currentIP \in IPs
    /\ hostIP \in IPs
    /\ hostIP # currentIP
    /\ Len(calls) > 0
    /\ calls[Len(calls)].op = "PUT"
    /\ calls[Len(calls)].ok
    /\ calls[Len(calls)].body.content = currentIP
    /\ zone[calls[Len(calls)].id].content = currentIP

---------------------------------------------------------------------------
(* C18: the record id, the name and the type of every update write, in  *)
(* flight or completed, are those of one entry of the listing fetched   *)
(* in the same tick (the matched entry the loop is at), whatever name   *)
(* and type the record holds when it is fetched again or written.       *)
ListedAs(id, name, type) ==
    \E n \in 1..Len(allRecords) :
        /\ allRecords[n].id = id
        /\ allRecords[n].name = name
        /\ allRecords[n].type = type

C18_WriteUsesListedIdentity ==
    /\ \A u \in CallIds :
          calls[u].op = "PUT" =>
              /\ ListedAs(calls[u].id, calls[u].body.name, calls[u].body.type)
              /\ calls[u].id = allowedRecords[calls[u].idx].id
              /\ calls[u].body.name = allowedRecords[calls[u].idx].name
              /\ calls[u].body.type = allowedRecords[calls[u].idx].type
    /\ inflight.op = "PUT" =>
          /\ ListedAs(inflight.id, inflight.body.name, inflight.body.type)
          /\ inflight.id = allowedRecords[idx].id
          /\ inflight.body.name = allowedRecords[idx].name
          /\ inflight.body.type = allowedRecords[idx].type

\* a record was renamed or retyped out-of-band after the listing, and the
\* applied write has put the listed name and type back
C18_Witness ==
    /\ Len(calls) > 0
    /\ LET u == calls[Len(calls)]
       IN /\ u.op = "PUT"
          /\ u.ok
          /\ (u.held.name # u.body.name \/ u.held.type # u.body.type)
          /\ zone[u.id].name = allowedRecords[u.idx].name
          /\ zone[u.id].type = allowedRecords[u.idx].type

---------------------------------------------------------------------------
(* C19: matching is by name only.  The matched records are the entries  *)
(* of the listing whose name is in the allow-list, whatever their type  *)
(* and however many of them share a name.  In a tick that has run to    *)
(* its end each of them has been read for the comparison exactly once,  *)
(* each whose read returned content different from the discovered IP    *)
(* has had update called for it, and, its calls succeeding, has had     *)
(* its content set to the discovered IP.                                *)
CallsFor(id) == {k \in RecordCalls : calls[k].id = id}

C19_MatchByNameOnly ==
    pc \in {"compare", "refetch", "put", "sleep"} =>
        \A n \in 1..Len(allRecords) :
            /\ ExactlyListed(allRecords[n].name) <=>
                  \E i \in 1..Len(allowedRecords) :
                      allowedRecords[i] = allRecords[n]
            /\ ~ExactlyListed(allRecords[n].name) => CallsFor(n) = {}
            /\ (pc = "sleep" /\ ExactlyListed(allRecords[n].name)) =>
                  /\ Cardinality({k \in CallsFor(n) :
                         calls[k].purpose = "compare"}) = 1
                  /\ \A c \in CallsFor(n) :
                        (/\ calls[c].purpose = "compare"
                         /\ calls[c].ok
                         /\ calls[c].held.content # currentIP) =>
                            /\ \E r \in CallsFor(n) :
                                  calls[r].purpose = "refetch"
                            /\ (\A k \in CallsFor(n) : calls[k].ok) =>
                                  \E u \in CallsFor(n) :
                                      /\ calls[u].op = "PUT"
                                      /\ calls[u].body.content = currentIP

\* two listed records share an allow-listed name and differ in type, and
\* the tick has set the content of both to the discovered IP
C19_Witness ==
    /\ pc = "sleep"
    /\ Len(allRecords) = 2
    /\ allRecords[1].name = allRecords[2].name
    /\ allRecords[1].type # allRecords[2].type
    /\ \A n \in 1..2 :
          \E u \in CallsFor(n) :
              /\ calls[u].op = "PUT"
              /\ calls[u].ok
              /\ calls[u].body.content = currentIP
              /\ calls[u].body.type = allRecords[n].type

==========================================================================
